---------------------------- MODULE Spec2Model ----------------------------
(***************************************************************************)
(* A model of the time-stepping core of the snow MPM simulator             *)
(* (lib/SnowSolver.cpp): SnowSolver::update with its ten sub-steps and     *)
(* SnowSolver::handleNodeCollisionVelocityUpdate.                          *)
(*                                                                         *)
(* Numbers.  The program computes in IEEE doubles; the model computes in   *)
(* integers of fixed scale (TLC integers are 32 bit wide):                 *)
(*   length    one unit is h/4 (h = 4 units; with h = 0.05 m the floor     *)
(*             height 0.1 m is 8 units)                                    *)
(*   time      one unit is tau/TS, tau = 1/28 s, so that the gravity       *)
(*             9.8 m/s^2 is exactly one length unit per tau^2              *)
(*   velocity  VS units per (length unit / tau)                            *)
(*   weight    exact numerators over WDEN = (6 h^3)^3                      *)
(*   mass      (particle mass) * (weight numerator): exact                 *)
(*   deformation gradient entries: FS units per 1                          *)
(* Every quotient is rounded toward zero (Div).                            *)
(***************************************************************************)
EXTENDS Integers, Sequences, FiniteSets, TLC

(***************************************************************************)
(* Bounds of the model                                                     *)
(***************************************************************************)
\* update is called at most MaxCalls times in one behaviour
MaxCalls == 3
\* the collision handler is applied at most MaxApply times to the probe node
MaxApply == 2
\* at most MaxParticles particles are added before the first update
MaxParticles == 2
\* the constructor is run for every shape of at most MaxDim nodes a side
MaxDim == 3

(***************************************************************************)
(* Scales of the fixed-point numbers and the scene                         *)
(***************************************************************************)
\* grid spacing h (first constructor argument) in length units
H == 4
\* grid shape `size' (second constructor argument)
SizeX == 4
SizeY == 4
SizeZ == 6
\* velocity units per (length unit / tau)
VS == 64
\* time units per tau
TS == 4
\* deformation gradient units per 1
FS == 2000
\* the hard-coded floor height 0.1 of the collision handler, in length units
FloorZ == 8
\* the hard-coded friction coefficient 1.0 of the collision handler
MuF == 1
\* the gravity 9.8 of the force stage, in velocity units per tau
Gravity == 64

(***************************************************************************)
(* Integer helpers                                                         *)
(***************************************************************************)
Abs(a) == IF a < 0 THEN -a ELSE a

Sign(a) == IF a < 0 THEN -1 ELSE 1

\* the quotient a / b rounded toward zero, as the conversion double -> int
\* and the model's rounding of every real quotient
Div(a, b) == Sign(a) * Sign(b) * (Abs(a) \div Abs(b))

\* a * b / s without forming a product above 2^31 (|b| * s < 2^31)
FMul(a, b, s) == Sign(a) * ((Abs(a) \div s) * b + Div((Abs(a) % s) * b, s))

Min(a, b) == IF a < b THEN a ELSE b

Max(a, b) == IF a < b THEN b ELSE a

RECURSIVE IsqrtRec(_, _, _)
IsqrtRec(s, lo, hi) ==
    IF lo >= hi THEN lo
    ELSE LET mid == (lo + hi + 1) \div 2
         IN IF mid * mid <= s THEN IsqrtRec(s, mid, hi)
            ELSE IsqrtRec(s, lo, mid - 1)

\* the integer square root (floor)
Isqrt(s) == IsqrtRec(s, 0, 46340)

(***************************************************************************)
(* glm vectors: a dvec3 is a triple                                        *)
(***************************************************************************)
Zero3 == <<0, 0, 0>>

VAdd(a, b) == <<a[1] + b[1], a[2] + b[2], a[3] + b[3]>>

VSub(a, b) == <<a[1] - b[1], a[2] - b[2], a[3] - b[3]>>

VScale(a, k) == <<a[1] * k, a[2] * k, a[3] * k>>

VDiv(a, k) == <<Div(a[1], k), Div(a[2], k), Div(a[3], k)>>

Dot(a, b) == a[1] * b[1] + a[2] * b[2] + a[3] * b[3]

\* glm::length(a)
Length(a) == Isqrt(Dot(a, a))

\* glm::length(a) > 0
NonZero(a) == a # Zero3

(***************************************************************************)
(* SnowSolver::handleNodeCollisionVelocityUpdate (lines 305-336).          *)
(* `node' is any record with fields position and velocity_star; the result *)
(* is the node after the call.                                             *)
(***************************************************************************)
\* the branch taken below the floor once v_n < 0 (lines 322-332)
\* a slide that keeps the normal component of the velocity
CollisionResponse_KeepNormal(v_rel, v_n, nrm, mu) ==
    LET v_t == VSub(v_rel, VScale(nrm, v_n))
        len == Length(v_t)
    IN  IF Dot(v_t, v_t) <= (mu * v_n) * (mu * v_n)
        THEN Zero3
        ELSE VAdd(v_rel, VDiv(VScale(v_t, mu * v_n), len))

CollisionResponse(v_rel, v_n, nrm, mu) ==
    LET v_t == VSub(v_rel, VScale(nrm, v_n))
        len == Length(v_t)
    IN  IF Dot(v_t, v_t) <= (mu * v_n) * (mu * v_n)
        THEN Zero3
        ELSE VAdd(v_t, VDiv(VScale(v_t, mu * v_n), len))

\* a handler that tests position.z < 0.1
handleNodeCollisionVelocityUpdate_Strict(node) ==
    IF node.position[3] < FloorZ
    THEN LET v_rel == node.velocity_star
             v_n == Dot(v_rel, <<0, 0, 1>>)
         IN  IF v_n >= 0
             THEN node
             ELSE [node EXCEPT !.velocity_star =
                                  CollisionResponse(v_rel, v_n, <<0, 0, 1>>, MuF)]
    ELSE node

\* a handler without the test of position.z
handleNodeCollisionVelocityUpdate_Anywhere(node) ==
    LET v_rel == node.velocity_star
        v_n == Dot(v_rel, <<0, 0, 1>>)
    IN  IF v_n >= 0
        THEN node
        ELSE [node EXCEPT !.velocity_star =
                             CollisionResponse(v_rel, v_n, <<0, 0, 1>>, MuF)]

handleNodeCollisionVelocityUpdate(node) ==
    IF node.position[3] <= FloorZ
    THEN LET v_co == Zero3
             nrm == <<0, 0, 1>>
             mu == MuF
             v_rel == VSub(node.velocity_star, v_co)
             v_n == Dot(v_rel, nrm)
         IN  IF v_n >= 0
             THEN node
             ELSE [node EXCEPT !.velocity_star =
                                  VAdd(CollisionResponse(v_rel, v_n, nrm, mu), v_co)]
    ELSE node

(***************************************************************************)
(* Sums over finite sets of tuples of integers                             *)
(***************************************************************************)
TAdd(a, b) == [i \in DOMAIN a |-> a[i] + b[i]]

RECURSIVE SumT(_, _, _)
\* the sum of f[x] over x in S, starting from zero
SumT(f, S, zero) ==
    IF S = {} THEN zero
    ELSE LET x == CHOOSE y \in S : TRUE
         IN  TAdd(f[x], SumT(f, S \ {x}, zero))

(***************************************************************************)
(* Interpolation kernel (declared in SnowSolver.h, specification 4.1):     *)
(* the cubic B-spline N and its derivative at the offset a/H, a in length  *)
(* units.                                                                  *)
(***************************************************************************)
\* denominator of N1: 6 h^3
NDEN == 6 * H * H * H
\* denominator of weight: (6 h^3)^3
WDEN == NDEN * NDEN * NDEN

\* N(a/H) * NDEN
N1(a) ==
    LET b == Abs(a)
    IN  IF b < H THEN 3 * b * b * b - 6 * b * b * H + 4 * H * H * H
        ELSE IF b < 2 * H THEN (2 * H - b) * (2 * H - b) * (2 * H - b)
        ELSE 0

\* N'(a/H) * NDEN: N' has the denominator 2 h^2, and the factor 3 h brings
\* it to NDEN
DN1(a) ==
    LET b == Abs(a)
    IN  Sign(a) * 3 * H *
          (IF b < H THEN 3 * b * b - 4 * b * H
           ELSE IF b < 2 * H THEN -((2 * H - b) * (2 * H - b))
           ELSE 0)

\* weight(gridNode, particleNode) * WDEN
weight(gridNode, particleNode) ==
    LET d == VSub(particleNode.position, gridNode.position)
    IN  N1(d[1]) * N1(d[2]) * N1(d[3])

\* nabla_weight(gridNode, particleNode) * WDEN, in 1/h (the factor 1/h of the
\* gradient is applied where the gradient is used)
nabla_weight(gridNode, particleNode) ==
    LET d == VSub(particleNode.position, gridNode.position)
    IN  << DN1(d[1]) * N1(d[2]) * N1(d[3]),
           N1(d[1]) * DN1(d[2]) * N1(d[3]),
           N1(d[1]) * N1(d[2]) * DN1(d[3]) >>

(***************************************************************************)
(* The grid (SnowSolver::SnowSolver, GridNode.h)                           *)
(***************************************************************************)
NumNodes == SizeX * SizeY * SizeZ

\* GridNode(position, location): the other fields are left to the phases
\* of update that write them before they are read
GridNode(position, location) ==
    [position |-> position, location |-> location, mass |-> 0,
     velocity |-> <<Zero3, Zero3>>, velocity_star |-> Zero3,
     force |-> Zero3, density0 |-> 0]

\* the location emplaced i-th by the constructor's loops (x outermost,
\* z innermost), i = 1 .. NumNodes
LoopLocation(i) ==
    << (i - 1) \div (SizeY * SizeZ),
       ((i - 1) \div SizeZ) % SizeY,
       (i - 1) % SizeZ >>

\* the node array after the constructor
Constructor ==
    [i \in 1 .. NumNodes |->
        GridNode(VScale(LoopLocation(i), H), LoopLocation(i))]

\* isValidGridNode(gx, gy, gz)
isValidGridNode(g) ==
    /\ 0 <= g[1] /\ g[1] < SizeX
    /\ 0 <= g[2] /\ g[2] < SizeY
    /\ 0 <= g[3] /\ g[3] < SizeZ

\* getGridNodeIndex(gx, gy, gz): the place of the node of location g
getGridNodeIndex(g) == (g[1] * SizeY + g[2]) * SizeZ + g[3] + 1

\* node.velocity(n): the buffer of tick n
Buf(n) == (n % 2) + 1

\* the candidate nodes of a particle: gmin .. gmax of
\* ivec3(position / h - 1) .. ivec3(position / h + 2)
gmin(particleNode) ==
    [i \in 1 .. 3 |-> Div(particleNode.position[i] - H, H)]

gmax(particleNode) ==
    [i \in 1 .. 3 |-> Div(particleNode.position[i] + 2 * H, H)]

Window(particleNode) ==
    LET lo == gmin(particleNode)
        hi == gmax(particleNode)
    IN  (lo[1] .. hi[1]) \X (lo[2] .. hi[2]) \X (lo[3] .. hi[3])

\* the candidate nodes that pass `if (!isValidGridNode(gx, gy, gz)) continue'
ValidWindow(particleNode) == {g \in Window(particleNode) : isValidGridNode(g)}

InWindow(particleNode, g) ==
    LET lo == gmin(particleNode)
        hi == gmax(particleNode)
    IN  \A i \in 1 .. 3 : lo[i] <= g[i] /\ g[i] <= hi[i]

(***************************************************************************)
(* State                                                                   *)
(***************************************************************************)
VARIABLES
    gridNodes,      \* std::vector<GridNode>, in the constructor's order
    particleNodes,  \* std::vector<ParticleNode>
    delta_t,        \* the solver's step, the first argument of every update
    n,              \* the tick index of the update that runs or ran last
    pc,             \* the place inside update ("idle" between two calls)
    calls,          \* history: the tick indices of the calls made so far
    phases,         \* history: the phases the running call has completed
    entry,          \* history: the grid and the particles when update was entered
    rasterized,     \* history: each node's velocity(n) as phase 1 left it
    badAccess,      \* history: the node array was accessed with invalid coordinates
    err,            \* the error surfaced to the caller by the last call
    probe,          \* a node handed to the collision handler on its own
    probeTrace,     \* history: the probe before and after each application
    size,           \* the shape (Nx, Ny, Nz) given to the constructor
    loop,           \* the constructor's loop variables (x, y, z)
    applied         \* history: Av_next of the implicit operator's evaluation

vars == <<gridNodes, particleNodes, delta_t, n, pc, calls, phases, entry,
          rasterized, badAccess, err, probe, probeTrace, size, loop,
          applied>>

\* the fields of the solver and its history in the order of vars, without
\* the probe
solverVars == <<gridNodes, particleNodes, delta_t, n, pc, calls, phases,
                entry, rasterized, badAccess, err>>

probeVars == <<probe, probeTrace>>

ctorVars == <<size, loop>>

implicitVars == <<applied>>

(***************************************************************************)
(* Particles (add_particle): deformElastic and deformPlastic default to    *)
(* the identity; volume0 is not set before the tick of index 0 and holds   *)
(* whatever the memory held.                                               *)
(***************************************************************************)
\* a dmat3 is a triple of rows
Identity == <<<<FS, 0, 0>>, <<0, FS, 0>>, <<0, 0, FS>>>>

ParticleNode(position, velocity, mass, volume0) ==
    [position |-> position, velocity |-> <<velocity, velocity>>,
     velocity_star |-> Zero3, mass |-> mass, volume0 |-> volume0,
     deformElastic |-> Identity, deformPlastic |-> Identity]

\* resolution at which a weight enters a product with another quantity
WRED == 1024

\* volume0 units per h^3
VOLS == 16

\* 1 / 0 of IEEE doubles
Infinity == 2000000000

(***************************************************************************)
(* update, step 1: rasterize particle data to the grid (lines 64-101)      *)
(***************************************************************************)
\* mass and momentum a particle adds to the node g (lines 79-85); the
\* loop visits only the nodes of the particle's window
\* a window loop that stops one node short of gmax in z
Rasterized_ShortWindow(particleNode, gridNode, tick) ==
    IF /\ InWindow(particleNode, gridNode.location)
       /\ gridNode.location[3] < gmax(particleNode)[3]
    THEN LET particleWeightedMass ==
                 particleNode.mass * weight(gridNode, particleNode)
             v == VScale(particleNode.velocity[Buf(tick)],
                         Div(particleWeightedMass, WRED))
         IN  <<particleWeightedMass, v[1], v[2], v[3]>>
    ELSE <<0, 0, 0, 0>>

Rasterized(particleNode, gridNode, tick) ==
    IF InWindow(particleNode, gridNode.location)
    THEN LET particleWeightedMass ==
                 particleNode.mass * weight(gridNode, particleNode)
             v == VScale(particleNode.velocity[Buf(tick)],
                         Div(particleWeightedMass, WRED))
         IN  <<particleWeightedMass, v[1], v[2], v[3]>>
    ELSE <<0, 0, 0, 0>>

Step1Node(gridNode, particles, tick) ==
    LET sum == SumT([p \in DOMAIN particles |->
                        Rasterized(particles[p], gridNode, tick)],
                    DOMAIN particles, <<0, 0, 0, 0>>)
        mass == sum[1]
        momentum == <<sum[2], sum[3], sum[4]>>
        v == IF NonZero(momentum) /\ mass > 0
             THEN VDiv(momentum, Div(mass, WRED))
             ELSE Zero3
    IN  [gridNode EXCEPT !.mass = mass, !.velocity[Buf(tick)] = v]

\* a rasterize phase followed by the volume phase whatever the tick index
Step1_AlwaysVolumes ==
    /\ pc = "step1"
    /\ gridNodes' = [i \in DOMAIN gridNodes |->
                        Step1Node(gridNodes[i], particleNodes, n)]
    /\ rasterized' = [i \in DOMAIN gridNodes |-> gridNodes'[i].velocity[Buf(n)]]
    /\ phases' = Append(phases, "rasterize")
    /\ pc' = "step2"
    /\ UNCHANGED <<particleNodes, delta_t, n, calls, entry, badAccess, err>>
    /\ UNCHANGED probeVars
    /\ UNCHANGED ctorVars
    /\ UNCHANGED implicitVars

Step1 ==
    /\ pc = "step1"
    /\ gridNodes' = [i \in DOMAIN gridNodes |->
                        Step1Node(gridNodes[i], particleNodes, n)]
    /\ rasterized' = [i \in DOMAIN gridNodes |-> gridNodes'[i].velocity[Buf(n)]]
    /\ phases' = Append(phases, "rasterize")
    /\ pc' = IF n = 0 THEN "step2" ELSE "step3"
    /\ UNCHANGED <<particleNodes, delta_t, n, calls, entry, badAccess, err>>
    /\ UNCHANGED probeVars
    /\ UNCHANGED ctorVars
    /\ UNCHANGED implicitVars

(***************************************************************************)
(* update, step 2: particle volumes and densities, only in the tick of     *)
(* index 0 (lines 105-140)                                                 *)
(***************************************************************************)
\* what a read of the node array at invalid coordinates may contribute to a
\* particle's density: the array is read out of its bounds or at another
\* node's place, so the value is whatever the memory holds
JunkDensity == {0, WDEN \div 8}

\* gridNode.density0 * weight(gridNode, particleNode), in mass per h^3
DensityTerm(gridNode, particleNode) ==
    Div(Div(gridNode.density0, WRED) * Div(weight(gridNode, particleNode), WRED),
        WDEN \div (WRED * WRED))

\* lines 119-136; the window loop of this step has no isValidGridNode test
Step2Particle(particleNode, grid, junk) ==
    LET valid == ValidWindow(particleNode)
        sum == SumT([g \in valid |->
                        <<DensityTerm(grid[getGridNodeIndex(g)], particleNode)>>],
                    valid, <<0>>)[1]
        particleNodeDensity0 ==
            Div(sum + (IF Window(particleNode) # valid THEN junk ELSE 0), WRED)
    IN  [particleNode EXCEPT !.volume0 =
            IF particleNodeDensity0 = 0 THEN Infinity
            ELSE Div(particleNode.mass * VOLS * (WDEN \div WRED),
                     particleNodeDensity0)]

Step2 ==
    /\ pc = "step2"
    /\ LET invalid == \E p \in DOMAIN particleNodes :
                         Window(particleNodes[p]) # ValidWindow(particleNodes[p])
           \* line 112: density0 = mass / h^3, in mass per h^3
           grid == [i \in DOMAIN gridNodes |->
                       [gridNodes[i] EXCEPT !.density0 = gridNodes[i].mass]]
       IN  /\ gridNodes' = grid
           /\ \E junk \in (IF invalid THEN JunkDensity ELSE {0}) :
                 particleNodes' =
                     [p \in DOMAIN particleNodes |->
                         Step2Particle(particleNodes[p], grid, junk)]
           /\ badAccess' = (badAccess \/ invalid)
    /\ phases' = Append(phases, "volumes")
    /\ pc' = "step3"
    /\ UNCHANGED <<delta_t, n, calls, entry, rasterized, err>>
    /\ UNCHANGED probeVars
    /\ UNCHANGED ctorVars
    /\ UNCHANGED implicitVars

(***************************************************************************)
(* glm matrices: a dmat3 is a triple of rows, entries in FS units          *)
(***************************************************************************)
Diag(e) == <<<<e[1], 0, 0>>, <<0, e[2], 0>>, <<0, 0, e[3]>>>>

Transpose(a) == [i \in 1 .. 3 |-> [j \in 1 .. 3 |-> a[j][i]]]

MatSub(a, b) == [i \in 1 .. 3 |-> [j \in 1 .. 3 |-> a[i][j] - b[i][j]]]

MatMul(a, b) ==
    [i \in 1 .. 3 |-> [j \in 1 .. 3 |->
        FMul(a[i][1], b[1][j], FS) + FMul(a[i][2], b[2][j], FS)
          + FMul(a[i][3], b[3][j], FS)]]

\* glm::determinant
Determinant(a) ==
      FMul(a[1][1], FMul(a[2][2], a[3][3], FS) - FMul(a[2][3], a[3][2], FS), FS)
    - FMul(a[1][2], FMul(a[2][1], a[3][3], FS) - FMul(a[2][3], a[3][1], FS), FS)
    + FMul(a[1][3], FMul(a[2][1], a[3][2], FS) - FMul(a[2][2], a[3][1], FS), FS)

IsDiagonal(a) == \A i, j \in 1 .. 3 : i # j => a[i][j] = 0

\* svd (lines 27-38) of a diagonal matrix: m = u * diag(e) * v^T with
\* u = diag(sign m_ii), e_i = |m_ii|, v = 1.  (Eigen orders e; the callers
\* clamp e componentwise and recompose, which no order changes.)  The
\* particles of this model sit where the deformation gradients stay
\* diagonal: see DiagonalDeformations.
svd(m) ==
    [u |-> Diag(<<Sign(m[1][1]) * FS, Sign(m[2][2]) * FS, Sign(m[3][3]) * FS>>),
     e |-> <<Abs(m[1][1]), Abs(m[2][2]), Abs(m[3][3])>>,
     v |-> Identity]

\* polarRot (lines 40-46)
polarRot(m) == LET d == svd(m) IN MatMul(d.u, Transpose(d.v))

(***************************************************************************)
(* Material constants (declared in SnowSolver.h)                           *)
(***************************************************************************)
\* units of mu0 and lambda0 per (mass / (length unit * tau^2))
MS == 1024
\* units of exp(.) per 1
ES == 1024
mu0 == 10
lambda0 == 7
hardeningCoefficient == 1
\* 1 - criticalCompression and 1 + criticalStretch in FS units (2.5e-2, 7.5e-3)
ClampLo == 1950
ClampHi == 2015
\* the PIC/FLIP blend alpha = AlphaNum / AlphaDen
AlphaNum == 95
AlphaDen == 100

RECURSIVE SquareTimes(_, _)
SquareTimes(t, k) == IF k = 0 THEN t ELSE SquareTimes(FMul(t, t, ES), k - 1)

\* exp(x / ES) * ES: the series to the fourth power at x / 16, squared four
\* times; below -12 it is 0 at this scale, above 12 it is held
exp(x) ==
    IF x < -12 * ES THEN 0
    ELSE LET y == Div(Min(x, 12 * ES), 16)
             y2 == FMul(y, y, ES)
             y3 == FMul(y2, y, ES)
             y4 == FMul(y3, y, ES)
         IN  SquareTimes(ES + y + Div(y2, 2) + Div(y3, 6) + Div(y4, 24), 4)

(***************************************************************************)
(* update, step 3: grid forces (lines 150-183)                             *)
(***************************************************************************)
\* resolution at which a node's mass divides its force
FRED == 64

\* force units: VS * WDEN / FRED per (mass * length unit / tau^2).  A product
\* unweightedForce * nabla_weight is brought to them by this divisor.
ForceDen == (VOLS * FS * MS * FRED) \div (H * H * VS * WRED)

\* lines 156-166, in volume0 units * FS * MS
unweightedForce(particleNode) ==
    LET jp == Determinant(particleNode.deformPlastic)
        je == Determinant(particleNode.deformElastic)
        e == exp(FMul(hardeningCoefficient * (FS - jp), ES, FS))
        mu == Div(mu0 * e, ES)
        lambda == Div(lambda0 * e, ES)
        corot == MatMul(MatSub(particleNode.deformElastic,
                               polarRot(particleNode.deformElastic)),
                        Transpose(particleNode.deformElastic))
        pressure == lambda * FMul(je - FS, je, FS)
        p(i, j) == -particleNode.volume0 *
                      (2 * mu * corot[i][j] + (IF i = j THEN pressure ELSE 0))
    IN  << <<p(1, 1), p(1, 2), p(1, 3)>>,
           <<p(2, 1), p(2, 2), p(2, 3)>>,
           <<p(3, 1), p(3, 2), p(3, 3)>> >>

\* line 177 for one particle and one node of its window
ForceTerm(uf, particleNode, gridNode) ==
    IF InWindow(particleNode, gridNode.location)
    THEN LET nw == VDiv(nabla_weight(gridNode, particleNode), WRED)
         IN  [i \in 1 .. 3 |->
                 FMul(uf[i][1], nw[1], ForceDen) + FMul(uf[i][2], nw[2], ForceDen)
                   + FMul(uf[i][3], nw[3], ForceDen)]
    ELSE Zero3

Step3Node(gridNode, particles, ufs) ==
    [gridNode EXCEPT !.force =
        SumT([p \in DOMAIN particles |-> ForceTerm(ufs[p], particles[p], gridNode)],
             DOMAIN particles,
             <<0, 0, -Gravity * Div(gridNode.mass, FRED)>>)]

Step3 ==
    /\ pc = "step3"
    /\ \E ufs \in {[p \in DOMAIN particleNodes |->
                         unweightedForce(particleNodes[p])]} :
           gridNodes' = [i \in DOMAIN gridNodes |->
                            Step3Node(gridNodes[i], particleNodes, ufs)]
    /\ phases' = Append(phases, "forces")
    /\ pc' = "step4"
    /\ UNCHANGED <<particleNodes, delta_t, n, calls, entry, rasterized,
                   badAccess, err>>
    /\ UNCHANGED probeVars
    /\ UNCHANGED ctorVars
    /\ UNCHANGED implicitVars

(***************************************************************************)
(* update, steps 4 and 5: explicit integration and grid collision          *)
(* (lines 185-198)                                                         *)
(***************************************************************************)
\* lines 189-192
ExplicitVelocity(gridNode, dt, tick) ==
    IF NonZero(gridNode.force) /\ gridNode.mass > 0
    THEN VAdd(gridNode.velocity[Buf(tick)],
              VDiv(VScale(VDiv(gridNode.force, Div(gridNode.mass, FRED)), dt), TS))
    ELSE gridNode.velocity[Buf(tick)]

Step4Node(gridNode, dt, tick) ==
    handleNodeCollisionVelocityUpdate(
        [gridNode EXCEPT !.velocity_star = ExplicitVelocity(gridNode, dt, tick)])

Step4 ==
    /\ pc = "step4"
    /\ gridNodes' = [i \in DOMAIN gridNodes |-> Step4Node(gridNodes[i], delta_t, n)]
    /\ phases' = Append(phases, "integrate")
    /\ pc' = "step6"
    /\ UNCHANGED <<particleNodes, delta_t, n, calls, entry, rasterized,
                   badAccess, err>>
    /\ UNCHANGED probeVars
    /\ UNCHANGED ctorVars
    /\ UNCHANGED implicitVars

(***************************************************************************)
(* update, step 6: the linear system (lines 202-216).  The call of the     *)
(* conjugate residual solver is commented out: velocity_next stays         *)
(* velocity_star.                                                          *)
(***************************************************************************)
\* an assignment that writes the buffer of tick n
Step6Node_SameBuffer(gridNode, tick) ==
    LET velocity_next == gridNode.velocity_star
    IN  [gridNode EXCEPT !.velocity[Buf(tick)] = velocity_next]

\* an assignment of the solver's initial guess velocity(n)
Step6Node_Guess(gridNode, tick) ==
    LET velocity_next == gridNode.velocity[Buf(tick)]
    IN  [gridNode EXCEPT !.velocity[Buf(tick + 1)] = velocity_next]

Step6Node(gridNode, tick) ==
    LET velocity_next == gridNode.velocity_star
    IN  [gridNode EXCEPT !.velocity[Buf(tick + 1)] = velocity_next]

Step6 ==
    /\ pc = "step6"
    /\ gridNodes' = [i \in DOMAIN gridNodes |-> Step6Node(gridNodes[i], n)]
    /\ phases' = Append(phases, "solve")
    /\ pc' = "step7"
    /\ UNCHANGED <<particleNodes, delta_t, n, calls, entry, rasterized,
                   badAccess, err>>
    /\ UNCHANGED probeVars
    /\ UNCHANGED ctorVars
    /\ UNCHANGED implicitVars

(***************************************************************************)
(* update, steps 7 to 10: the particle update (lines 225-298)              *)
(***************************************************************************)
\* resolution at which a weight gradient enters the velocity gradient
GRED == 8192

\* lines 231-247: the sum of outerProduct(velocity(n + 1), nabla_weight)
\* over the valid nodes of the window, row by row, in VS * (WDEN / GRED) / h
VelocityGradient(particleNode, grid, tick) ==
    LET valid == ValidWindow(particleNode)
        term(g) ==
            LET gridNode == grid[getGridNodeIndex(g)]
                v == gridNode.velocity[Buf(tick + 1)]
                nw == VDiv(nabla_weight(gridNode, particleNode), GRED)
            IN  << v[1] * nw[1], v[1] * nw[2], v[1] * nw[3],
                   v[2] * nw[1], v[2] * nw[2], v[2] * nw[3],
                   v[3] * nw[1], v[3] * nw[2], v[3] * nw[3] >>
        sum == SumT([g \in valid |-> term(g)], valid,
                    <<0, 0, 0, 0, 0, 0, 0, 0, 0>>)
    IN  [i \in 1 .. 3 |-> [j \in 1 .. 3 |-> sum[3 * (i - 1) + j]]]

\* line 249: dmat3(1) + delta_t * nabla_v, in FS units
Multiplier(nabla_v, dt) ==
    [i \in 1 .. 3 |-> [j \in 1 .. 3 |->
        (IF i = j THEN FS ELSE 0)
          + Div(FMul(nabla_v[i][j], dt * FS, WDEN \div GRED), TS * VS * H)]]

\* a clamp that bounds the stretch only
clamp_StretchOnly(e) == [i \in 1 .. 3 |-> Min(e[i], ClampHi)]

\* glm::clamp(e, 1 - criticalCompression, 1 + criticalStretch)
clamp(e) == [i \in 1 .. 3 |-> Min(Max(e[i], ClampLo), ClampHi)]

\* lines 266-285: <<v_pic, v_flip>>
Blend(particleNode, grid, tick) ==
    LET valid == ValidWindow(particleNode)
        term(g) ==
            LET gridNode == grid[getGridNodeIndex(g)]
                w == Div(weight(gridNode, particleNode), WRED)
                gv == gridNode.velocity[Buf(tick)]
                gv1 == gridNode.velocity[Buf(tick + 1)]
            IN  << gv1[1] * w, gv1[2] * w, gv1[3] * w,
                   (gv1[1] - gv[1]) * w, (gv1[2] - gv[2]) * w, (gv1[3] - gv[3]) * w >>
        sum == SumT([g \in valid |-> term(g)], valid, <<0, 0, 0, 0, 0, 0>>)
        v_pic == VDiv(<<sum[1], sum[2], sum[3]>>, WDEN \div WRED)
        v_flip == VAdd(particleNode.velocity[Buf(tick)],
                       VDiv(<<sum[4], sum[5], sum[6]>>, WDEN \div WRED))
    IN  <<v_pic, v_flip>>

Step7Particle(particleNode, grid, dt, tick) ==
    LET \* 7
        deform == MatMul(particleNode.deformElastic, particleNode.deformPlastic)
        nabla_v == VelocityGradient(particleNode, grid, tick)
        multiplier == Multiplier(nabla_v, dt)
        deform_prime == MatMul(multiplier, deform)
        deformElastic_prime == MatMul(multiplier, particleNode.deformElastic)
        d == svd(deformElastic_prime)
        e == clamp(d.e)
        einv == <<Div(FS * FS, e[1]), Div(FS * FS, e[2]), Div(FS * FS, e[3])>>
        \* 8
        b == Blend(particleNode, grid, tick)
        velocity_star == VDiv(VAdd(VScale(b[1], AlphaDen - AlphaNum),
                                   VScale(b[2], AlphaNum)), AlphaDen)
        \* 9
        collided == handleNodeCollisionVelocityUpdate(
                        [particleNode EXCEPT !.velocity_star = velocity_star])
    IN  [collided EXCEPT
            !.deformElastic = MatMul(MatMul(d.u, Diag(e)), Transpose(d.v)),
            !.deformPlastic = MatMul(MatMul(MatMul(d.v, Diag(einv)),
                                            Transpose(d.u)), deform_prime),
            !.velocity[Buf(tick + 1)] = collided.velocity_star,
            \* 10
            !.position = VAdd(particleNode.position,
                              VDiv(VScale(collided.velocity_star, dt), TS * VS))]

Step7 ==
    /\ pc = "step7"
    /\ particleNodes' = [p \in DOMAIN particleNodes |->
                            Step7Particle(particleNodes[p], gridNodes, delta_t, n)]
    /\ phases' = Append(phases, "particles")
    /\ pc' = "idle"
    /\ UNCHANGED <<gridNodes, delta_t, n, calls, entry, rasterized, badAccess, err>>
    /\ UNCHANGED probeVars
    /\ UNCHANGED ctorVars
    /\ UNCHANGED implicitVars

(***************************************************************************)
(* The caller: update(delta_t, n) (lines 57-58).  Nothing in update tests  *)
(* the tick index; no path of update raises an error.                      *)
(***************************************************************************)
\* the tick indices a call may pass: 0 (again), or the successor of the last
\* index; the first call may skip the index 0
TickChoices == IF calls = <<>> THEN {0, 1} ELSE {0, calls[Len(calls)] + 1}

Update ==
    /\ pc = "idle"
    /\ Len(calls) < MaxCalls
    /\ \E tick \in TickChoices :
          /\ n' = tick
          /\ calls' = Append(calls, tick)
    /\ phases' = <<>>
    /\ entry' = [gridNodes |-> gridNodes, particleNodes |-> particleNodes]
    /\ err' = "none"
    /\ pc' = "step1"
    /\ UNCHANGED <<gridNodes, particleNodes, delta_t, rasterized, badAccess>>
    /\ UNCHANGED probeVars
    /\ UNCHANGED ctorVars
    /\ UNCHANGED implicitVars

(***************************************************************************)
(* Initial states: the solver after the constructor and add_particle.      *)
(* The particles stand in one column, at a node or at the middle of a cell *)
(* in x and y, with velocities along z: the scene is mirror-symmetric in x *)
(* and in y, which keeps the deformation gradients diagonal.               *)
(***************************************************************************)
ColumnXY == {H, H + H \div 2}
StartZ == {FloorZ + 1, 3 * H, 4 * H + 2}
\* what volume0 may hold before the tick of index 0 sets it
UninitializedVolume0 == {0, 5 * VOLS}
\* the steps the solver may be given: tau and 3 tau
Steps == {TS, 3 * TS}

NoProbe == [position |-> Zero3, velocity_star |-> Zero3]

InitSolver(particles, dt) ==
    /\ gridNodes = Constructor
    /\ particleNodes = particles
    /\ delta_t = dt
    /\ n = 0
    /\ pc = "idle"
    /\ calls = <<>>
    /\ phases = <<>>
    /\ entry = [gridNodes |-> Constructor, particleNodes |-> particles]
    /\ rasterized = [i \in 1 .. NumNodes |-> Zero3]
    /\ badAccess = FALSE
    /\ err = "none"
    /\ size = <<SizeX, SizeY, SizeZ>>
    /\ loop = <<SizeX, 0, 0>>
    /\ applied = <<>>

\* k particles at rest one above the other, the lowest at height z, the
\* p-th of mass p
Column(k, xy, z, volume0) ==
    [p \in 1 .. k |->
        ParticleNode(<<xy, xy, z + 3 * (p - 1)>>, Zero3, p, volume0)]

Init ==
    /\ \E k \in 1 .. MaxParticles, xy \in ColumnXY, z \in StartZ,
          volume0 \in UninitializedVolume0, dt \in Steps :
          InitSolver(Column(k, xy, z, volume0), dt)
    /\ probe = NoProbe
    /\ probeTrace = <<>>

Next == Update \/ Step1 \/ Step2 \/ Step3 \/ Step4 \/ Step6 \/ Step7

Spec == Init /\ [][Next]_vars

\* the svd of this model is the svd of diagonal matrices: every matrix it is
\* given is diagonal
DiagonalDeformations ==
    \A p \in DOMAIN particleNodes :
        /\ IsDiagonal(particleNodes[p].deformElastic)
        /\ IsDiagonal(particleNodes[p].deformPlastic)
        /\ particleNodes[p].position[1] = particleNodes[1].position[1]
        /\ particleNodes[p].position[2] = particleNodes[1].position[2]
        /\ particleNodes[p].position[1] \in ColumnXY

(***************************************************************************)
(* The collision handler on its own: a node of any height near the floor   *)
(* and of any velocity is handed to it MaxApply times.                     *)
(***************************************************************************)
ProbeZ == {FloorZ - 1, FloorZ, FloorZ + 1}
ProbeV == {-96, -64, -25, 0, 40, 64}

Collide ==
    /\ Len(probeTrace) < MaxApply
    /\ probe' = handleNodeCollisionVelocityUpdate(probe)
    /\ probeTrace' = Append(probeTrace, [before |-> probe, after |-> probe'])
    /\ UNCHANGED solverVars
    /\ UNCHANGED ctorVars
    /\ UNCHANGED implicitVars

InitCollide ==
    /\ InitSolver(<<>>, TS)
    /\ \E z \in ProbeZ, vx \in ProbeV, vy \in ProbeV, vz \in ProbeV :
          probe = [position |-> <<H, H, z>>, velocity_star |-> <<vx, vy, vz>>]
    /\ probeTrace = <<>>

NextCollide == Collide

SpecCollide == InitCollide /\ [][NextCollide]_vars

(***************************************************************************)
(* The handler on whole nodes: update hands it its grid nodes (line 196)   *)
(* and its particles (line 290), with every field they have.               *)
(***************************************************************************)
\* heights of the node: on the ground, around the floor, well above it
NodeZ == {0} \cup ProbeZ \cup {2 * FloorZ}

\* a grid node of the scene's grid and a particle at that place, each with
\* velocity_star = v and its other fields at values of their own
Nodes(z, v) ==
    { [GridNode(<<H, H, z>>, <<1, 1, z \div H>>) EXCEPT
          !.velocity_star = v, !.velocity = <<v, <<1, 2, 3>>>>, !.mass = 5,
          !.force = <<0, 0, -Gravity>>, !.density0 = 7],
      [ParticleNode(<<H, H, z>>, v, 3, VOLS) EXCEPT !.velocity_star = v] }

InitCollideNode ==
    /\ InitSolver(<<>>, TS)
    /\ \E z \in NodeZ, vx \in ProbeV, vy \in ProbeV, vz \in ProbeV :
          probe \in Nodes(z, <<vx, vy, vz>>)
    /\ probeTrace = <<>>

SpecCollideNode == InitCollideNode /\ [][NextCollide]_vars

(***************************************************************************)
(* The constructor on its own (lines 13-25): for a grid of any shape up to *)
(* MaxDim nodes a side, and of the shape of the scene above, each          *)
(* emplace_back of its loops is one step.                                  *)
(***************************************************************************)
Shapes == ((1 .. MaxDim) \X (1 .. MaxDim) \X (1 .. MaxDim))
              \cup {<<SizeX, SizeY, SizeZ>>}

\* loops that run x innermost and z outermost
NextLoop_XInnermost(l, shape) ==
    IF l[1] + 1 < shape[1] THEN <<l[1] + 1, l[2], l[3]>>
    ELSE IF l[2] + 1 < shape[2] THEN <<0, l[2] + 1, l[3]>>
    ELSE IF l[3] + 1 < shape[3] THEN <<0, 0, l[3] + 1>>
    ELSE <<shape[1], 0, 0>>

\* the loop variables after one more pass of the body: z runs innermost,
\* x outermost (lines 16-18); the loops end with x = size.x
NextLoop(l, shape) ==
    IF l[3] + 1 < shape[3] THEN <<l[1], l[2], l[3] + 1>>
    ELSE IF l[2] + 1 < shape[2] THEN <<l[1], l[2] + 1, 0>>
    ELSE <<l[1] + 1, 0, 0>>

\* line 19
Emplace ==
    /\ loop[1] < size[1]
    /\ gridNodes' = Append(gridNodes, GridNode(VScale(loop, H), loop))
    /\ loop' = NextLoop(loop, size)
    /\ UNCHANGED <<particleNodes, delta_t, n, pc, calls, phases, entry,
                   rasterized, badAccess, err, size>>
    /\ UNCHANGED probeVars
    /\ UNCHANGED implicitVars

InitConstruct ==
    /\ gridNodes = <<>>
    /\ particleNodes = <<>>
    /\ delta_t = TS
    /\ n = 0
    /\ pc = "idle"
    /\ calls = <<>>
    /\ phases = <<>>
    /\ entry = [gridNodes |-> <<>>, particleNodes |-> <<>>]
    /\ rasterized = <<>>
    /\ badAccess = FALSE
    /\ err = "none"
    /\ probe = NoProbe
    /\ probeTrace = <<>>
    /\ size \in Shapes
    /\ loop = <<0, 0, 0>>
    /\ applied = <<>>

NextConstruct == Emplace

SpecConstruct == InitConstruct /\ [][NextConstruct]_vars

\* the node array the solver of the scene starts from is the one the loops
\* build for the scene's shape
ConstructorAgrees ==
    (size = <<SizeX, SizeY, SizeZ>> /\ loop[1] = size[1])
        => gridNodes = Constructor

(***************************************************************************)
(* The implicit operator, SnowSolver::implicitVelocityIntegrationMatrix    *)
(* (lines 344-499).  update does not call it (the call of the solver is    *)
(* commented out, lines 211-212); here it is evaluated on its own where    *)
(* that call stands, on the solver's state before step 6, for              *)
(* v_next = velocity_star, the vector the solver would start from          *)
(* (line 207).  x_next (lines 356-360) is computed and never read.         *)
(***************************************************************************)
\* units of the operator's local delta_t per time unit
DTS == 25
\* line 349: delta_t = 5e-3 (seconds; one time unit is 1/112 s)
HardDeltaT == 14
\* line 350
Beta == 1

\* glm::dmat3(a0, ..., a8): the nine numbers fill the columns one by one
dmat3(a) == <<<<a[1], a[4], a[7]>>, <<a[2], a[5], a[8]>>, <<a[3], a[6], a[9]>>>>

\* a dmat3 held as a value: its nine entries, computed once
Mat3(m) == <<<<m[1][1], m[1][2], m[1][3]>>, <<m[2][1], m[2][2], m[2][3]>>,
             <<m[3][1], m[3][2], m[3][3]>>>>

\* glm's m[c][r]: column c, row r, both from 0
At(m, c, r) == m[r + 1][c + 1]

\* ddot (lines 338-342)
ddot(a, b) ==
    FMul(a[1][1], b[1][1], FS) + FMul(a[1][2], b[1][2], FS) + FMul(a[1][3], b[1][3], FS)
  + FMul(a[2][1], b[2][1], FS) + FMul(a[2][2], b[2][2], FS) + FMul(a[2][3], b[2][3], FS)
  + FMul(a[3][1], b[3][1], FS) + FMul(a[3][2], b[3][2], FS) + FMul(a[3][3], b[3][3], FS)

\* glm::dmat3 times glm::dvec3
MatVec(a, v) ==
    [i \in 1 .. 3 |->
        FMul(a[i][1], v[1], FS) + FMul(a[i][2], v[2], FS) + FMul(a[i][3], v[3], FS)]

\* glm::inverse, of a diagonal matrix
Inverse(m) == Diag(<<Div(FS * FS, m[1][1]), Div(FS * FS, m[2][2]),
                     Div(FS * FS, m[3][3])>>)

\* polarDecompose (lines 48-55)
polarDecompose(m) ==
    LET d == svd(m)
    IN  [r |-> MatMul(d.u, Transpose(d.v)),
         s |-> MatMul(MatMul(d.v, Diag(d.e)), Transpose(d.v))]

\* lines 375-388: the sum of outerProduct(v_next, nabla_weight) over the
\* particle's window, row by row
OuterProductSum(particleNode, v_next) ==
    LET valid == ValidWindow(particleNode)
        term(g) ==
            LET v == v_next[getGridNodeIndex(g)]
                nw == VDiv(nabla_weight(GridNode(VScale(g, H), g), particleNode),
                           GRED)
            IN  << v[1] * nw[1], v[1] * nw[2], v[1] * nw[3],
                   v[2] * nw[1], v[2] * nw[2], v[2] * nw[3],
                   v[3] * nw[1], v[3] * nw[2], v[3] * nw[3] >>
        sum == SumT([g \in valid |-> term(g)], valid,
                    <<0, 0, 0, 0, 0, 0, 0, 0, 0>>)
    IN  <<sum[1], sum[2], sum[3], sum[4], sum[5], sum[6], sum[7], sum[8], sum[9]>>

\* line 390: delta_t * (the sum) * deformElastic, in FS units; dt in
\* 1 / DTS time units.  (A value is bound by x \in {value} where it is
\* read more than once.)
del_deformElastic(particleNode, v_next, dt) ==
    CHOOSE m \in
        { Mat3(MatMul([i \in 1 .. 3 |-> [j \in 1 .. 3 |->
                          Div(FMul(sum[3 * (i - 1) + j], dt * (FS \div DTS),
                                   WDEN \div GRED), TS * VS * H)]],
                      particleNode.deformElastic)) :
          sum \in {OuterProductSum(particleNode, v_next)} } : TRUE

\* lines 394-406
del_polarRotDeformElastic(particleNode, del_dE) ==
    LET pd == polarDecompose(particleNode.deformElastic)
        r == Mat3(pd.r)
        s == Mat3(pd.s)
        rtdf_dftr == Mat3(MatSub(MatMul(Transpose(r), del_dE),
                                 MatMul(Transpose(del_dE), r)))
        del_r == MatVec(Inverse(dmat3(<<At(s, 0, 0) + At(s, 1, 1), At(s, 1, 2),
                                        -At(s, 0, 2), At(s, 2, 1),
                                        At(s, 0, 0) + At(s, 2, 2), At(s, 1, 0),
                                        -At(s, 0, 2), At(s, 0, 1),
                                        At(s, 1, 1) + At(s, 2, 2)>>)),
                        <<At(rtdf_dftr, 0, 1), At(rtdf_dftr, 0, 2),
                          At(rtdf_dftr, 1, 2)>>)
    IN  dmat3(<<0, -del_r[1], -del_r[2],
                del_r[1], 0, -del_r[3],
                del_r[2], del_r[3], 0>>)

\* line 417
cofactor_deformElastic(particleNode) ==
    LET je == Determinant(particleNode.deformElastic)
        it == Transpose(Inverse(particleNode.deformElastic))
    IN  Mat3([i \in 1 .. 3 |-> [j \in 1 .. 3 |-> FMul(je, it[i][j], FS)]])

\* lines 428-466
del_cofactor_deformElastic(cde, del_dE) ==
    dmat3(<<
        ddot(dmat3(<<0, 0, 0,
                     0, At(cde, 2, 2), -At(cde, 2, 1),
                     0, -At(cde, 1, 2), At(cde, 1, 1)>>), del_dE),
        ddot(dmat3(<<0, 0, 0,
                     -At(cde, 2, 2), 0, At(cde, 2, 0),
                     At(cde, 1, 2), 0, -At(cde, 1, 0)>>), del_dE),
        ddot(dmat3(<<0, 0, 0,
                     At(cde, 2, 1), -At(cde, 2, 0), 0,
                     -At(cde, 1, 1), At(cde, 1, 0), 0>>), del_dE),
        ddot(dmat3(<<0, -At(cde, 2, 2), At(cde, 2, 1),
                     0, 0, 0,
                     0, At(cde, 0, 2), -At(cde, 0, 1)>>), del_dE),
        ddot(dmat3(<<At(cde, 2, 2), 0, -At(cde, 2, 0),
                     0, 0, 0,
                     -At(cde, 0, 2), 0, At(cde, 0, 0)>>), del_dE),
        ddot(dmat3(<<-At(cde, 2, 1), At(cde, 2, 0), 0,
                     0, 0, 0,
                     At(cde, 0, 1), -At(cde, 0, 0), 0>>), del_dE),
        ddot(dmat3(<<0, At(cde, 1, 2), -At(cde, 1, 1),
                     0, -At(cde, 0, 2), At(cde, 0, 1),
                     0, 0, 0>>), del_dE),
        ddot(dmat3(<<-At(cde, 1, 2), 0, At(cde, 1, 0),
                     At(cde, 0, 2), 0, -At(cde, 0, 0),
                     0, 0, 0>>), del_dE),
        ddot(dmat3(<<At(cde, 1, 1), -At(cde, 1, 0), 0,
                     -At(cde, 0, 1), At(cde, 0, 0), 0,
                     0, 0, 0>>), del_dE)>>)

\* lines 470-473, the factor left of transpose(deformElastic)
DelStress(particleNode, del_dE, cde) ==
    LET del_pr == del_polarRotDeformElastic(particleNode, del_dE)
        jp == Determinant(particleNode.deformPlastic)
        je == Determinant(particleNode.deformElastic)
        e == exp(FMul(hardeningCoefficient * (FS - jp), ES, FS))
        mu == Div(mu0 * e, ES)
        lambda == Div(lambda0 * e, ES)
        del_je == ddot(cde, del_dE)
        del_cde == del_cofactor_deformElastic(cde, del_dE)
    IN  Mat3([i \in 1 .. 3 |-> [j \in 1 .. 3 |->
                 2 * mu * (del_dE[i][j] - del_pr[i][j])
                   + lambda * (FMul(cde[i][j], del_je, FS)
                                 + FMul(je - FS, del_cde[i][j], FS))]])

\* lines 368-474 for one particle, in the units of unweightedForce
unweightedDelForce(particleNode, v_next, dt) ==
    CHOOSE udf \in
        { Mat3([i \in 1 .. 3 |-> [j \in 1 .. 3 |->
                   -particleNode.volume0 *
                       MatMul(k, Transpose(particleNode.deformElastic))[i][j]]]) :
          k \in { DelStress(particleNode, del_dE, cde) :
                     del_dE \in {del_deformElastic(particleNode, v_next, dt)},
                     cde \in {cofactor_deformElastic(particleNode)} } } : TRUE

\* lines 364-497 for one node: v_next - beta * delta_t * del_f / mass
Av_nextNode(gridNode, v, particles, udfs, dt) ==
    LET del_f == SumT([p \in DOMAIN particles |->
                          ForceTerm(udfs[p], particles[p], gridNode)],
                      DOMAIN particles, Zero3)
    IN  IF gridNode.mass > 0
        THEN VSub(v, VDiv(VScale(VDiv(del_f, Div(gridNode.mass, FRED)), Beta * dt),
                          TS * DTS))
        ELSE v

\* unweightedDelForce of the first k particles, in the order of line 367
RECURSIVE DelForces(_, _, _, _)
DelForces(particles, v_next, dt, k) ==
    IF k = 0 THEN <<>>
    ELSE Append(DelForces(particles, v_next, dt, k - 1),
                unweightedDelForce(particles[k], v_next, dt))

\* the operator of lines 352-497 for a given delta_t
ImplicitOperator(v_next, grid, particles, dt) ==
    CHOOSE av \in
        { [i \in DOMAIN grid |->
              Av_nextNode(grid[i], v_next[i], particles, udfs, dt)] :
          udfs \in {DelForces(particles, v_next, dt, Len(particles))} } : TRUE

\* lines 345-350: the operator as the source evaluates it
implicitVelocityIntegrationMatrix(v_next) ==
    ImplicitOperator(v_next, gridNodes, particleNodes, HardDeltaT)

\* v_next as the solver would pass it first (line 207)
VelocityStar == [i \in DOMAIN gridNodes |-> gridNodes[i].velocity_star]

Apply ==
    /\ pc = "step6"
    /\ applied = <<>>
    /\ applied' = implicitVelocityIntegrationMatrix(VelocityStar)
    /\ UNCHANGED solverVars
    /\ UNCHANGED probeVars
    /\ UNCHANGED ctorVars

NextImplicit == Next \/ Apply

SpecImplicit == Init /\ [][NextImplicit]_vars

(***************************************************************************)
(* C1.  Within one call update(dt, n) the phases run in the order          *)
(* rasterize, (volumes only if n = 0), forces, integrate, solve,           *)
(* particles, and from the end of the rasterize phase to the end of the    *)
(* call every node's velocity(n) is the one the rasterize phase wrote.     *)
(***************************************************************************)
C1_PhaseOrder ==
    LET order == IF n = 0
                 THEN <<"rasterize", "volumes", "forces", "integrate", "solve",
                        "particles">>
                 ELSE <<"rasterize", "forces", "integrate", "solve", "particles">>
    IN  /\ Len(phases) <= Len(order)
        /\ phases = SubSeq(order, 1, Len(phases))
        /\ (pc = "idle" /\ calls # <<>>) => phases = order
        /\ (pc # "idle") => Len(phases) < Len(order)
        /\ phases # <<>> =>
               \A i \in DOMAIN gridNodes :
                   gridNodes[i].velocity[Buf(n)] = rasterized[i]

\* a tick of index 1 has run to its end: the rasterize phase wrote a non-zero
\* velocity(n) to a node whose velocity(n + 1) differs from it
C1_Witness ==
    /\ pc = "idle"
    /\ calls = <<0, 1>>
    /\ Len(phases) = 5
    /\ \E i \in DOMAIN gridNodes :
          /\ rasterized[i] # Zero3
          /\ gridNodes[i].velocity[Buf(n + 1)] # rasterized[i]

C3_StateError ==
    (Len(calls) = 1 /\ calls[1] # 0 /\ pc = "idle")
        => /\ err = "StateError"
           /\ gridNodes = entry.gridNodes
           /\ particleNodes = entry.particleNodes

(***************************************************************************)
(* C4.  As the claim states it: after the rasterize phase of every tick    *)
(* the sum of the grid-node masses equals the sum of the particle masses,  *)
(* whatever the particles' positions.                                      *)
(***************************************************************************)
C4_AsStated ==
    pc \notin {"idle", "step1"} =>
        SumT([i \in DOMAIN gridNodes |-> <<gridNodes[i].mass>>],
             DOMAIN gridNodes, <<0>>)[1]
          = WDEN * SumT([p \in DOMAIN particleNodes |-> <<particleNodes[p].mass>>],
                        DOMAIN particleNodes, <<0>>)[1]

(***************************************************************************)
(* C4, amended.  After the rasterize phase of every tick the sum of the    *)
(* grid-node masses equals the sum of the particle masses, provided every  *)
(* particle lies at least one cell inside the grid on every axis           *)
(* (h <= x <= (N - 2) h), so that every node within the kernel's support   *)
(* is a node of the grid.                                                  *)
(***************************************************************************)
C4_InsideTheGrid ==
    (/\ pc \notin {"idle", "step1"}
     /\ \A p \in DOMAIN particleNodes : \A i \in 1 .. 3 :
           /\ H <= particleNodes[p].position[i]
           /\ particleNodes[p].position[i] <= (<<SizeX, SizeY, SizeZ>>[i] - 2) * H)
        => SumT([i \in DOMAIN gridNodes |-> <<gridNodes[i].mass>>],
                DOMAIN gridNodes, <<0>>)[1]
             = WDEN * SumT([p \in DOMAIN particleNodes |->
                               <<particleNodes[p].mass>>],
                           DOMAIN particleNodes, <<0>>)[1]

\* the rasterize phase has run for two particles between the nodes of the
\* grid, both more than one cell inside it, and a node holds mass of both
C4_Witness ==
    /\ pc = "step3"
    /\ Len(particleNodes) = 2
    /\ \A p \in DOMAIN particleNodes :
          /\ H < particleNodes[p].position[3]
          /\ particleNodes[p].position[3] < (SizeZ - 2) * H
          /\ particleNodes[p].position[1] % H # 0
          /\ particleNodes[p].position[3] % H # 0
    /\ \E i \in DOMAIN gridNodes :
          /\ InWindow(particleNodes[1], gridNodes[i].location)
          /\ InWindow(particleNodes[2], gridNodes[i].location)
          /\ gridNodes[i].mass > 0

(***************************************************************************)
(* C5.  As the claim states it: whatever the node's height, the handler    *)
(* returns v* unchanged when v_n >= 0, the zero velocity when              *)
(* |v_t| <= -mu_f v_n, and v_t + mu_f v_n (v_t / |v_t|) otherwise.         *)
(***************************************************************************)
C5_AsStated ==
    \A k \in DOMAIN probeTrace :
        LET v == probeTrace[k].before.velocity_star
            v_n == v[3]
            t2 == v[1] * v[1] + v[2] * v[2]
        IN  probeTrace[k].after.velocity_star =
                IF v_n >= 0 THEN v
                ELSE IF t2 <= (MuF * v_n) * (MuF * v_n) THEN Zero3
                ELSE <<v[1] + Div(v[1] * MuF * v_n, Isqrt(t2)),
                       v[2] + Div(v[2] * MuF * v_n, Isqrt(t2)), 0>>

(***************************************************************************)
(* C5, amended.  For a node with position.z <= 0.1 the handler returns v*  *)
(* unchanged when v_n >= 0, the zero velocity when |v_t| <= -mu_f v_n, and *)
(* v_t + mu_f v_n (v_t / |v_t|) otherwise; for a node with                 *)
(* position.z > 0.1 it returns v* unchanged.  It changes nothing else.     *)
(***************************************************************************)
C5_AtTheFloor ==
    \A k \in DOMAIN probeTrace :
        LET before == probeTrace[k].before
            v == before.velocity_star
            v_n == v[3]
            t2 == v[1] * v[1] + v[2] * v[2]
        IN  /\ probeTrace[k].after.position = before.position
            /\ probeTrace[k].after.velocity_star =
                    IF before.position[3] > FloorZ \/ v_n >= 0 THEN v
                    ELSE IF t2 <= (MuF * v_n) * (MuF * v_n) THEN Zero3
                    ELSE <<v[1] + Div(v[1] * MuF * v_n, Isqrt(t2)),
                           v[2] + Div(v[2] * MuF * v_n, Isqrt(t2)), 0>>

\* the handler has made a node at the floor slide
C5_Witness ==
    /\ probeTrace # <<>>
    /\ LET before == probeTrace[1].before
           v == before.velocity_star
       IN  /\ before.position[3] = FloorZ
           /\ v[3] < 0
           /\ v[1] * v[1] + v[2] * v[2] > v[3] * v[3]
           /\ probeTrace[1].after.velocity_star \notin {v, Zero3}

(***************************************************************************)
(* C6.  For every node and every velocity_star, a second application of    *)
(* the collision handler (and any further one) leaves the velocity_star    *)
(* the first application produced.                                         *)
(***************************************************************************)
C6_Idempotent ==
    \A k \in DOMAIN probeTrace :
        k >= 2 => probeTrace[k].after = probeTrace[1].after

\* the handler was applied twice to a node whose velocity the first
\* application changed to a sliding velocity
C6_Witness ==
    /\ Len(probeTrace) >= 2
    /\ probeTrace[1].after.velocity_star # probeTrace[1].before.velocity_star
    /\ probeTrace[1].after.velocity_star # Zero3

(***************************************************************************)
(* C7.  In the floor scenario (one particle that starts at rest above the  *)
(* floor, ticks 0, 1, 2, ... in this order), after every tick the          *)
(* particle's z is not larger than it was before the tick and not below    *)
(* the floor height 0.1.                                                   *)
(***************************************************************************)
C7_FloorScenario ==
    (/\ pc = "idle"
     /\ Len(particleNodes) = 1
     /\ calls # <<>>
     /\ \A k \in DOMAIN calls : calls[k] = k - 1)
        => /\ particleNodes[1].position[3] <= entry.particleNodes[1].position[3]
           /\ particleNodes[1].position[3] >= FloorZ

(***************************************************************************)
(* C8.  After every tick, every singular value of every particle's         *)
(* deformElastic lies in [1 - criticalCompression, 1 + criticalStretch]    *)
(* (the singular values of the diagonal matrices of this scene are the     *)
(* absolute values of their diagonal entries).                             *)
(***************************************************************************)
C8_PlasticClamp ==
    pc = "idle" =>
        \A p \in DOMAIN particleNodes :
            /\ IsDiagonal(particleNodes[p].deformElastic)
            /\ \A i \in 1 .. 3 :
                  /\ ClampLo <= Abs(particleNodes[p].deformElastic[i][i])
                  /\ Abs(particleNodes[p].deformElastic[i][i]) <= ClampHi

\* after a tick one particle is held at the compression limit and another
\* at the stretch limit
C8_Witness ==
    /\ pc = "idle"
    /\ calls # <<>>
    /\ \E p, q \in DOMAIN particleNodes :
          /\ Abs(particleNodes[p].deformElastic[3][3]) = ClampLo
          /\ Abs(particleNodes[q].deformElastic[3][3]) = ClampHi

(***************************************************************************)
(* C9.  With the implicit solve disabled, from the end of phase 6 to the   *)
(* end of the call every node's velocity(n + 1) is its velocity_star, and  *)
(* that is the velocity the explicit integration followed by the grid      *)
(* collision gives from the node's velocity(n), force and mass.            *)
(***************************************************************************)
C9_ExplicitFallback ==
    (pc \in {"step7", "idle"} /\ calls # <<>>) =>
        \A i \in DOMAIN gridNodes :
            /\ gridNodes[i].velocity[Buf(n + 1)] = gridNodes[i].velocity_star
            /\ gridNodes[i].velocity[Buf(n + 1)] =
                   handleNodeCollisionVelocityUpdate(
                       [gridNodes[i] EXCEPT !.velocity_star =
                           ExplicitVelocity(gridNodes[i], delta_t, n)]).velocity_star

\* phase 6 has run on a grid where the integration changed the velocity of
\* one node and the collision stopped another that carries mass
C9_Witness ==
    /\ pc = "step7"
    /\ \E i, j \in DOMAIN gridNodes :
          /\ gridNodes[i].velocity[Buf(n + 1)] # Zero3
          /\ gridNodes[i].velocity[Buf(n + 1)] # gridNodes[i].velocity[Buf(n)]
          /\ gridNodes[j].mass > 0
          /\ gridNodes[j].position[3] <= FloorZ
          /\ gridNodes[j].velocity[Buf(n + 1)] = Zero3
          /\ ExplicitVelocity(gridNodes[j], delta_t, n) # Zero3

(***************************************************************************)
(* C10.  No phase of update accesses the node array with coordinates       *)
(* outside [0, Nx - 1] x [0, Ny - 1] x [0, Nz - 1].                        *)
(***************************************************************************)
C10_ValidAccess == ~badAccess

(***************************************************************************)
(* C11.  As the claim states it: for every shape (Nx, Ny, Nz) and every    *)
(* valid (ix, iy, iz), the node the constructor stored at the flat index   *)
(* ix + Nx (iy + Ny iz) has location (ix, iy, iz) and position             *)
(* h (ix, iy, iz).                                                         *)
(***************************************************************************)
C11_AsStated ==
    loop[1] = size[1] =>
        \A ix \in 0 .. size[1] - 1, iy \in 0 .. size[2] - 1, iz \in 0 .. size[3] - 1 :
            LET i == ix + size[1] * (iy + size[2] * iz)
            IN  /\ i + 1 \in DOMAIN gridNodes
                /\ gridNodes[i + 1].location = <<ix, iy, iz>>
                /\ gridNodes[i + 1].position = <<H * ix, H * iy, H * iz>>

(***************************************************************************)
(* C11, amended.  For every shape (Nx, Ny, Nz) and every valid             *)
(* (ix, iy, iz), the node the constructor stored at the flat index         *)
(* iz + Nz (iy + Ny ix) has location (ix, iy, iz) and position             *)
(* h (ix, iy, iz); the array holds Nx Ny Nz nodes.  While the loops run,   *)
(* every node already stored is at that index.                             *)
(***************************************************************************)
C11_ZInnermost ==
    /\ \A i \in DOMAIN gridNodes :
          LET l == gridNodes[i].location
          IN  /\ \A k \in 1 .. 3 : 0 <= l[k] /\ l[k] < size[k]
              /\ i - 1 = l[3] + size[3] * (l[2] + size[2] * l[1])
              /\ gridNodes[i].position = <<H * l[1], H * l[2], H * l[3]>>
    /\ loop[1] = size[1] => Len(gridNodes) = size[1] * size[2] * size[3]

\* the constructor has finished a grid of three different sides
C11_Witness ==
    /\ loop[1] = size[1]
    /\ size = <<2, 3, 1>> \/ size = <<3, 1, 2>> \/ size = <<1, 2, 3>>
    /\ Len(gridNodes) = 6

(***************************************************************************)
(* C12.  The implicit operator A*v = v - (beta*dt/m_g)*delta_f(v) is       *)
(* evaluated with dt equal to the solver's current time step: what the     *)
(* operator returns on the solver's state is what lines 352-497 return     *)
(* for delta_t = the step update was called with, for every step value.    *)
(* The source takes delta_t = 5e-3 whatever the step is (line 349), so     *)
(* this is violated.                                                       *)
(***************************************************************************)
C12_FollowsStep ==
    (pc = "step6" /\ applied # <<>>)
        => applied = ImplicitOperator(VelocityStar, gridNodes, particleNodes,
                                      DTS * delta_t)

(***************************************************************************)
(* C13.  The collision handler changes velocity_star only for a node       *)
(* (grid node or particle) whose position.z <= 0.1 at the time of the      *)
(* call: a node with position.z > 0.1 keeps its velocity_star whatever it  *)
(* is, and no call changes any field other than velocity_star.             *)
(***************************************************************************)
C13_OnlyVelocityStarAtTheFloor ==
    \A k \in DOMAIN probeTrace :
        LET before == probeTrace[k].before
            after == probeTrace[k].after
        IN  /\ [after EXCEPT !.velocity_star = before.velocity_star] = before
            /\ after.velocity_star # before.velocity_star
                    => before.position[3] <= FloorZ

\* the handler was called on a grid node above the floor that moves
\* down and sideways, which at the floor it would have changed
C13_Witness ==
    /\ probeTrace # <<>>
    /\ LET before == probeTrace[1].before
       IN  /\ "force" \in DOMAIN before
           /\ before.position[3] > FloorZ
           /\ before.velocity_star[3] < 0
           /\ before.velocity_star[1] # 0
           /\ probeTrace[1].after = before

=============================================================================
